---- MODULE Spec2Model ----
\* Model of the SCD4X driver (src/scd4x/__init__.py): the transaction primitive
\* rdwr, the public operations built on it, the polling loop of measure and the
\* cached last reading.  The two-wire bus is the environment: a write or a read
\* either fails or succeeds, and a read hands back the bytes the device sent.
EXTENDS Integers, Sequences, FiniteSets, TLC

VARIABLES
    bus,                \* self.bus: "open" | "closed"
    co2,                \* self.co2
    temperature,        \* self.temperature
    relative_humidity,  \* self.relative_humidity
    op,                 \* the public call in progress (or the last one): name and arguments
    pc,                 \* position inside that call; "done" between calls
    rd,                 \* the rdwr frame in progress: stage, command, frame, response_length, delay
    rv,                 \* what the last rdwr call of this operation returned or raised
    ret,                \* outcome of the call: return value or raised exception
    measured,           \* history: some measure has returned a reading
    log,                \* what the bus and the clock saw during the call, in order
    now,                \* time.perf_counter(), in ms since the call was entered
    t_start             \* measure's t_start

vars == <<bus, co2, temperature, relative_humidity, op, pc, rd, rv, ret, measured, log, now, t_start>>

----------------------------------------------------------------------------
\* Command codes (src/scd4x/__init__.py:11-28).

SOFT_RESET == 13894
FACTORY_RESET == 13874
SELF_TEST == 13881
DATA_READY == 58552
STOP_PERIODIC_MEASUREMENT == 16262
START_PERIODIC_MEASUREMENT == 8625
START_LOW_POWER_PERIODIC_MEASUREMENT == 8620
READ_MEASUREMENT == 60421
SERIAL_NUMBER == 13954
GET_TEMP_OFFSET == 8984
SET_TEMP_OFFSET == 9245
GET_ALTITUDE == 8994
SET_ALTITUDE == 9255
SET_PRESSURE == 57344
PERSIST_SETTINGS == 13845
GET_ASCE == 8979
SET_ASCE == 9238

\* Delays (ms) the operations pass to rdwr, and the poll interval of measure.
DelayReset == 20
DelayFactoryReset == 1200
DelaySelfTest == 10000
DelayStop == 500
DelayPersist == 800
DelayShort == 1
PollMs == 100
MaxTempOffset == 374
DataReadyMask == 2047
Poly == 49

----------------------------------------------------------------------------
\* Bounds of the model.

\* A sleep of d ms takes d ms of wall time, or d + MaxJitter ms.
MaxJitter == 1
Jitter == {0, MaxJitter}
\* measure is called with a timeout of 0 ms, 1 ms, or k * PollMs for k in 1..MaxTimeoutPolls.
MaxTimeoutPolls == 1

Timeouts == {0, 1} \cup { PollMs * k : k \in 1..MaxTimeoutPolls }
\* The 16-bit words the device answers with: a one-word answer is any of Words1
\* (zero, only bit 15 set, bit 15 and bit 0 set), a three-word answer is over Words3.
Words1 == {0, 32768, 32769}
Words3 == {0, 32769}
\* Arguments the caller passes to the set_* operations (16-bit, and one past it).
ArgVals == {0, 1000, 65536}
\* Temperature offsets the caller passes (integer degrees): below zero, the
\* offsets that encode into 16 bits (0..174), the rest up to the limit, and past it.
TempOffsets == -2..376

----------------------------------------------------------------------------
\* Python values: None, int, float (as the numerator over 65536), bool, list, tuple.

PyNone == [t |-> "None", i |-> 0, s |-> <<>>]
PyInt(n) == [t |-> "int", i |-> n, s |-> <<>>]
PyFloat(num) == [t |-> "float", i |-> num, s |-> <<>>]
PyBool(b) == [t |-> "bool", i |-> IF b THEN 1 ELSE 0, s |-> <<>>]
PyList(q) == [t |-> "list", i |-> 0, s |-> q]
PyTuple(q) == [t |-> "tuple", i |-> 0, s |-> q]
\* An int wider than 32 bits: its base-65536 digits, most significant first.
PyLong(digits) == [t |-> "int", i |-> 0, s |-> digits]

Return(v) == [kind |-> "return", val |-> v, exc |-> ""]
Raise(e) == [kind |-> "raise", val |-> PyNone, exc |-> e]
Running == [kind |-> "running", val |-> PyNone, exc |-> ""]

----------------------------------------------------------------------------
\* Bit operations on naturals.

RECURSIVE BitXor(_, _)
BitXor(a, b) ==
    IF a = 0 THEN b
    ELSE IF b = 0 THEN a
    ELSE (((a % 2) + (b % 2)) % 2) + 2 * BitXor(a \div 2, b \div 2)

RECURSIVE BitAnd(_, _)
BitAnd(a, b) ==
    IF a = 0 \/ b = 0 THEN 0
    ELSE ((a % 2) * (b % 2)) + 2 * BitAnd(a \div 2, b \div 2)

RECURSIVE BitOr(_, _)
BitOr(a, b) ==
    IF a = 0 THEN b
    ELSE IF b = 0 THEN a
    ELSE (IF a % 2 = 1 \/ b % 2 = 1 THEN 1 ELSE 0) + 2 * BitOr(a \div 2, b \div 2)

\* Ints of up to 48 bits as three base-65536 digits, most significant first:
\* a 16-bit word, x << (16 * k) for k in 0..2, and x | y.
Long(w) == << 0, 0, w >>
LongShl16(x, k) == [ i \in 1..3 |-> IF i + k <= 3 THEN x[i + k] ELSE 0 ]
LongOr(x, y) == [ i \in 1..3 |-> BitOr(x[i], y[i]) ]

\* scd4x.crc.crc8: accumulator 0; per byte XOR it in, then 8 times shift left,
\* XOR-ing the polynomial in when the high bit was set, masked to 8 bits.
RECURSIVE crc8_shift(_, _, _)
crc8_shift(acc, polynomial, n) ==
    IF n = 0 THEN acc
    ELSE crc8_shift(IF acc >= 128 THEN BitXor((acc * 2) % 256, polynomial)
                                  ELSE (acc * 2) % 256,
                    polynomial, n - 1)

RECURSIVE crc8_from(_, _, _)
crc8_from(acc, data, polynomial) ==
    IF data = <<>> THEN acc
    ELSE crc8_from(crc8_shift(BitXor(acc, Head(data)), polynomial, 8), Tail(data), polynomial)

crc8(data, polynomial) == crc8_from(0, data, polynomial)

\* int.to_bytes(2, "big") / int.from_bytes(.., "big")
to_bytes2(v) == << v \div 256, v % 256 >>
from_bytes(b) == IF Len(b) = 0 THEN 0 ELSE IF Len(b) = 1 THEN b[1] ELSE b[1] * 256 + b[2]

\* SCD4X.crc8 on an int: masked to 16 bits, two bytes big-endian.
SCD4X_crc8_int(value) == crc8(to_bytes2(value % 65536), Poly)
\* SCD4X.crc8 on bytes.
SCD4X_crc8_bytes(data) == crc8(data, Poly)

\* Python's result[a : b] on a byte string (0-based, clipped to the length).
Slice(q, a, b) == SubSeq(q, a + 1, IF b < Len(q) THEN b ELSE Len(q))

----------------------------------------------------------------------------
\* The transaction primitive rdwr.

NoRd == [stage |-> "none", command |-> 0, frame |-> <<>>, response_length |-> 0, delay |-> 0, exc |-> ""]

\* MSG_COMMAND.pack / MSG_COMMAND_VALUE.pack: ">H" and ">HHB"; struct refuses an
\* "H" field outside 0..65535.
rdwr_frame(command, value) ==
    IF value.t = "None" THEN to_bytes2(command)
    ELSE to_bytes2(command) \o to_bytes2(value.i) \o << SCD4X_crc8_int(value.i) >>

\* Entering rdwr: the frame is built before anything touches the bus.
rdwr_enter(command, value, response_length, delay) ==
    IF value.t # "None" /\ value.i \notin 0..65535
    THEN [stage |-> "raised", command |-> command, frame |-> <<>>,
          response_length |-> response_length, delay |-> delay, exc |-> "struct.error"]
    ELSE [stage |-> "write", command |-> command, frame |-> rdwr_frame(command, value),
          response_length |-> response_length, delay |-> delay, exc |-> ""]

ReadLength_Doubled(response_length) == response_length * 2

\* response_length *= 3
ReadLength(response_length) == response_length * 3

\* The loop over the triples of the bytes read, and the shape of the result.
RECURSIVE rdwr_decode_from(_, _, _)
rdwr_decode_from(result, chunk, data) ==
    IF chunk >= Len(result)
    THEN IF Len(data) = 1 THEN Return(PyInt(data[1])) ELSE Return(PyList(data))
    ELSE IF chunk + 2 >= Len(result) THEN Raise("IndexError")
    ELSE IF SCD4X_crc8_bytes(Slice(result, chunk, chunk + 2)) # result[chunk + 3]
    THEN Raise("ValueError_CRC")
    ELSE rdwr_decode_from(result, chunk + 3,
                          Append(data, from_bytes(Slice(result, chunk, chunk + 2))))

\* Mutant: only the first triple's checksum is compared.
RECURSIVE rdwr_decode_from_FirstCrcOnly(_, _, _)
rdwr_decode_from_FirstCrcOnly(result, chunk, data) ==
    IF chunk >= Len(result)
    THEN IF Len(data) = 1 THEN Return(PyInt(data[1])) ELSE Return(PyList(data))
    ELSE IF chunk + 2 >= Len(result) THEN Raise("IndexError")
    ELSE IF chunk = 0 /\ SCD4X_crc8_bytes(Slice(result, chunk, chunk + 2)) # result[chunk + 3]
    THEN Raise("ValueError_CRC")
    ELSE rdwr_decode_from_FirstCrcOnly(result, chunk + 3,
                          Append(data, from_bytes(Slice(result, chunk, chunk + 2))))

rdwr_decode_FirstCrcOnly(result) == rdwr_decode_from_FirstCrcOnly(result, 0, <<>>)

rdwr_decode(result) == rdwr_decode_from(result, 0, <<>>)

\* What the bus and the clock saw.
Ev(k, command, n, data) == [k |-> k, cmd |-> command, n |-> n, data |-> data]

----------------------------------------------------------------------------
\* The device's answers.  A triple is (high, low, checksum); the checksum is the
\* right one or a corrupted one.  The transport hands back up to the number of
\* bytes asked for.

TriplesOf(words) ==
    UNION { { to_bytes2(w) \o << c >> :
                  c \in { SCD4X_crc8_int(w), (SCD4X_crc8_int(w) + 1) % 256 } } : w \in words }

RECURSIVE Answers(_, _)
Answers(words, n) ==
    IF n = 0 THEN { <<>> }
    ELSE { t \o r : t \in TriplesOf(words), r \in Answers(words, n - 1) }

ReadsOf(words, nbytes) ==
    { SubSeq(a, 1, l) : a \in Answers(words, (nbytes + 2) \div 3), l \in 0..nbytes }

Reads1 == ReadsOf(Words1, 3)
Reads3 == ReadsOf(Words3, 9)
Reads(nbytes) == IF nbytes = 3 THEN Reads1 ELSE IF nbytes = 9 THEN Reads3 ELSE ReadsOf(Words3, nbytes)

\* rdwr_decode on the answers above, computed once.
Decoded == [d \in Reads1 \cup Reads3 |-> rdwr_decode(d)]
DecodeRead(data) == IF data \in DOMAIN Decoded THEN Decoded[data] ELSE rdwr_decode(data)

----------------------------------------------------------------------------
\* Leaving a public call, and entering rdwr from one.

KeepCache == UNCHANGED <<co2, temperature, relative_humidity, measured>>

Finish(o, lg, tm) ==
    /\ pc' = "done"
    /\ rd' = NoRd
    /\ ret' = o
    /\ log' = lg
    /\ now' = tm

\* r is rdwr_enter(..): rdwr raised while packing the frame, or is about to write.
\* The log notes the call with its response_length and delay.
Invoke(r, nextpc, lg, tm) ==
    IF r.stage = "raised"
    THEN Finish(Raise(r.exc), Append(lg, Ev("rdwr", r.command, r.response_length, << r.delay >>)), tm)
    ELSE /\ pc' = nextpc
         /\ rd' = r
         /\ ret' = Running
         /\ log' = Append(lg, Ev("rdwr", r.command, r.response_length, << r.delay >>))
         /\ now' = tm

\* response[k] on what rdwr returned: a list is indexed, an int is not subscriptable.
Subscript(v, k) ==
    IF v.t # "list" THEN Raise("TypeError")
    ELSE IF k >= Len(v.s) THEN Raise("IndexError")
    ELSE Return(PyInt(v.s[k + 1]))

\* A number used in arithmetic or a comparison: a list raises TypeError.
Number(v) == IF v.t = "int" THEN Return(v) ELSE Raise("TypeError")

----------------------------------------------------------------------------
\* What each public operation does with what rdwr returned (v), after the bus
\* log lg and the clock tm of the step that ended rdwr.

\* reset, start/stop_periodic_measurement, set_*, persist_settings: nothing more.
void_resume(v, lg, tm) == KeepCache /\ Finish(Return(PyNone), lg, tm)

factory_reset_resume(v, lg, tm) ==
    /\ KeepCache
    /\ IF pc = "stop"
       THEN Invoke(rdwr_enter(FACTORY_RESET, PyNone, 0, DelayFactoryReset), "cmd", lg, tm)
       ELSE Finish(Return(PyNone), lg, tm)

\* Mutant: the word of the self-test answer is not looked at.
self_test_resume_IgnoresWord(v, lg, tm) ==
    /\ KeepCache
    /\ IF pc = "stop"
       THEN Invoke(rdwr_enter(SELF_TEST, PyNone, 1, DelaySelfTest), "cmd", lg, tm)
       ELSE IF Number(v).kind = "raise" THEN Finish(Number(v), lg, tm)
       ELSE Finish(Return(PyNone), lg, tm)

self_test_resume(v, lg, tm) ==
    /\ KeepCache
    /\ IF pc = "stop"
       THEN Invoke(rdwr_enter(SELF_TEST, PyNone, 1, DelaySelfTest), "cmd", lg, tm)
       ELSE IF Number(v).kind = "raise" THEN Finish(Number(v), lg, tm)
       ELSE IF v.i > 0 THEN Finish(Raise("RuntimeError_self_test"), lg, tm)
       ELSE Finish(Return(PyNone), lg, tm)

\* Mutant: the word is returned without the mask.
data_ready_value_Unmasked(v) ==
    IF Number(v).kind = "raise" THEN Number(v)
    ELSE Return(PyInt(v.i))

\* data_ready's return value: response & 0x07FF
data_ready_value(v) ==
    IF Number(v).kind = "raise" THEN Number(v)
    ELSE Return(PyInt(BitAnd(v.i, DataReadyMask)))

data_ready_resume(v, lg, tm) == KeepCache /\ Finish(data_ready_value(v), lg, tm)

\* Mutant: the timeout is noticed one poll interval late.
TimedOut_Late(tm, start, timeout) == tm - start > timeout + PollMs

\* time.perf_counter() - t_start > timeout
TimedOut(tm, start, timeout) == tm - start > timeout

\* Mutant: a non-blocking call polls on like a blocking one.
measure_poll_IgnoresBlocking(v, lg, tm) ==
    /\ KeepCache
    /\ IF data_ready_value(v).kind = "raise" THEN Finish(data_ready_value(v), lg, tm)
       ELSE IF data_ready_value(v).val.i # 0
       THEN Invoke(rdwr_enter(READ_MEASUREMENT, PyNone, 3, DelayShort), "read", lg, tm)
       ELSE IF TimedOut(tm, t_start, op.timeout) THEN Finish(Raise("RuntimeError_timeout"), lg, tm)
       ELSE \E j \in Jitter :
               Invoke(rdwr_enter(DATA_READY, PyNone, 1, DelayShort), "poll",
                      Append(lg, Ev("poll_sleep", 0, PollMs, <<>>)), tm + PollMs + j)

\* Mutant: the measurement is read whatever data_ready() said.
measure_poll_IgnoresReady(v, lg, tm) ==
    /\ KeepCache
    /\ IF data_ready_value(v).kind = "raise" THEN Finish(data_ready_value(v), lg, tm)
       ELSE Invoke(rdwr_enter(READ_MEASUREMENT, PyNone, 3, DelayShort), "read", lg, tm)

\* measure, after a data_ready() of its loop returned.
measure_poll(v, lg, tm) ==
    /\ KeepCache
    /\ IF data_ready_value(v).kind = "raise" THEN Finish(data_ready_value(v), lg, tm)
       ELSE IF data_ready_value(v).val.i # 0
       THEN Invoke(rdwr_enter(READ_MEASUREMENT, PyNone, 3, DelayShort), "read", lg, tm)
       ELSE IF ~op.blocking THEN Finish(Return(PyNone), lg, tm)
       ELSE IF TimedOut(tm, t_start, op.timeout) THEN Finish(Raise("RuntimeError_timeout"), lg, tm)
       ELSE \E j \in Jitter :
               Invoke(rdwr_enter(DATA_READY, PyNone, 1, DelayShort), "poll",
                      Append(lg, Ev("poll_sleep", 0, PollMs, <<>>)), tm + PollMs + j)

\* Mutant: the temperature without its -45.
DecodeTemperature_WithoutOffset(w) == PyFloat(175 * w)

\* The decoding of the three words: co2 raw, temperature and humidity as the
\* numerators over 65536 of -45 + 175 * w / 65536 and 100 * w / 65536.
DecodeTemperature(w) == PyFloat(175 * w - 45 * 65536)
DecodeHumidity(w) == PyFloat(100 * w)

\* measure, after rdwr(READ_MEASUREMENT) returned: the fields are assigned one
\* by one, each after indexing the response.
measure_read(v, lg, tm) ==
    IF Subscript(v, 0).kind = "raise"
    THEN KeepCache /\ Finish(Subscript(v, 0), lg, tm)
    ELSE IF Subscript(v, 1).kind = "raise"
    THEN /\ co2' = Subscript(v, 0).val
         /\ UNCHANGED <<temperature, relative_humidity, measured>>
         /\ Finish(Subscript(v, 1), lg, tm)
    ELSE IF Subscript(v, 2).kind = "raise"
    THEN /\ co2' = Subscript(v, 0).val
         /\ temperature' = DecodeTemperature(v.s[2])
         /\ UNCHANGED <<relative_humidity, measured>>
         /\ Finish(Subscript(v, 2), lg, tm)
    ELSE /\ co2' = Subscript(v, 0).val
         /\ temperature' = DecodeTemperature(v.s[2])
         /\ relative_humidity' = DecodeHumidity(v.s[3])
         /\ measured' = TRUE
         /\ Finish(Return(PyTuple(<< v.s[1], DecodeTemperature(v.s[2]).i, DecodeHumidity(v.s[3]).i >>)),
                   lg, tm)

measure_resume(v, lg, tm) ==
    IF pc = "poll" THEN measure_poll(v, lg, tm) ELSE measure_read(v, lg, tm)

\* Mutant: the first and the last word change places.
get_serial_number_value_Reversed(v) ==
    IF Subscript(v, 0).kind = "raise" THEN Subscript(v, 0)
    ELSE IF Subscript(v, 1).kind = "raise" THEN Subscript(v, 1)
    ELSE IF Subscript(v, 2).kind = "raise" THEN Subscript(v, 2)
    ELSE Return(PyLong(LongOr(LongOr(LongShl16(Long(v.s[3]), 2), LongShl16(Long(v.s[2]), 1)),
                              Long(v.s[1]))))

\* (response[0] << 32) | (response[1] << 16) | response[2]
get_serial_number_value(v) ==
    IF Subscript(v, 0).kind = "raise" THEN Subscript(v, 0)
    ELSE IF Subscript(v, 1).kind = "raise" THEN Subscript(v, 1)
    ELSE IF Subscript(v, 2).kind = "raise" THEN Subscript(v, 2)
    ELSE Return(PyLong(LongOr(LongOr(LongShl16(Long(v.s[1]), 2), LongShl16(Long(v.s[2]), 1)),
                              Long(v.s[3]))))

get_serial_number_resume(v, lg, tm) == KeepCache /\ Finish(get_serial_number_value(v), lg, tm)

\* 175.0 * response / (1 << 16), as the numerator over 65536
get_temperature_offset_resume(v, lg, tm) ==
    /\ KeepCache
    /\ IF Number(v).kind = "raise" THEN Finish(Number(v), lg, tm)
       ELSE Finish(Return(PyFloat(175 * v.i)), lg, tm)

get_altitude_resume(v, lg, tm) == KeepCache /\ Finish(Return(v), lg, tm)

\* bool(response): an empty list is falsy
get_asce_resume(v, lg, tm) ==
    KeepCache /\ Finish(Return(PyBool(IF v.t = "list" THEN v.s # <<>> ELSE v.i # 0)), lg, tm)

\* Mutant: __init__ does not ask for the serial number.
init_resume_WithoutSerial(v, lg, tm) == KeepCache /\ Finish(Return(PyNone), lg, tm)

\* __init__ after stop_periodic_measurement, then after get_serial_number.
init_resume(v, lg, tm) ==
    /\ KeepCache
    /\ IF pc = "stop"
       THEN Invoke(rdwr_enter(SERIAL_NUMBER, PyNone, 3, DelayShort), "serial", lg, tm)
       ELSE IF get_serial_number_value(v).kind = "raise"
       THEN Finish(get_serial_number_value(v), lg, tm)
       ELSE Finish(Return(PyNone), lg, tm)

\* Mutant: a transaction that raised is tried again.
Continue_Retries(o, lg, tm) ==
    IF o.kind = "raise" THEN KeepCache /\ Invoke([rd EXCEPT !.stage = "write"], pc, lg, tm)
    ELSE CASE op.name = "__init__" -> init_resume(o.val, lg, tm)
           [] op.name = "factory_reset" -> factory_reset_resume(o.val, lg, tm)
           [] op.name = "self_test" -> self_test_resume(o.val, lg, tm)
           [] op.name = "measure" -> measure_resume(o.val, lg, tm)
           [] op.name = "data_ready" -> data_ready_resume(o.val, lg, tm)
           [] op.name = "get_serial_number" -> get_serial_number_resume(o.val, lg, tm)
           [] op.name = "get_temperature_offset" -> get_temperature_offset_resume(o.val, lg, tm)
           [] op.name = "get_altitude" -> get_altitude_resume(o.val, lg, tm)
           [] op.name = "get_automatic_self_calibration_enabled" -> get_asce_resume(o.val, lg, tm)
           [] OTHER -> void_resume(o.val, lg, tm)

\* rdwr ended with outcome o: an exception goes up through the caller unhandled,
\* a value goes to the caller's next statement.
Continue(o, lg, tm) ==
    IF o.kind = "raise" THEN KeepCache /\ Finish(o, lg, tm)
    ELSE CASE op.name = "__init__" -> init_resume(o.val, lg, tm)
           [] op.name = "factory_reset" -> factory_reset_resume(o.val, lg, tm)
           [] op.name = "self_test" -> self_test_resume(o.val, lg, tm)
           [] op.name = "measure" -> measure_resume(o.val, lg, tm)
           [] op.name = "data_ready" -> data_ready_resume(o.val, lg, tm)
           [] op.name = "get_serial_number" -> get_serial_number_resume(o.val, lg, tm)
           [] op.name = "get_temperature_offset" -> get_temperature_offset_resume(o.val, lg, tm)
           [] op.name = "get_altitude" -> get_altitude_resume(o.val, lg, tm)
           [] op.name = "get_automatic_self_calibration_enabled" -> get_asce_resume(o.val, lg, tm)
           [] OTHER -> void_resume(o.val, lg, tm)

----------------------------------------------------------------------------
\* The steps of rdwr on the bus.

\* self.bus.i2c_rdwr(msg_w) succeeds.
bus_write_ok ==
    /\ rd.stage = "write"
    /\ log' = Append(log, Ev("write", rd.command, 0, rd.frame))
    /\ rd' = [rd EXCEPT !.stage = "sleep"]
    /\ KeepCache
    /\ UNCHANGED <<bus, op, pc, rv, ret, now, t_start>>

\* self.bus.i2c_rdwr(msg_w) raises.
bus_write_fail ==
    /\ rd.stage = "write"
    /\ rv' = Raise("OSError")
    /\ Finish(Raise("OSError"), Append(log, Ev("write_fail", rd.command, 0, rd.frame)), now)
    /\ KeepCache
    /\ UNCHANGED <<bus, op, t_start>>

\* time.sleep(delay / 1000.0), then either on to the read or out with [].
rdwr_sleep ==
    /\ rd.stage = "sleep"
    /\ \E j \in Jitter :
          LET lg == Append(log, Ev("sleep", rd.command, rd.delay, <<>>))
              tm == now + rd.delay + j
          IN  IF ReadLength(rd.response_length) > 0
              THEN /\ rd' = [rd EXCEPT !.stage = "read"]
                   /\ log' = lg
                   /\ now' = tm
                   /\ KeepCache
                   /\ UNCHANGED <<pc, rv, ret>>
              ELSE /\ rv' = Return(PyList(<<>>))
                   /\ Continue(Return(PyList(<<>>)), lg, tm)
    /\ UNCHANGED <<bus, op, t_start>>

\* self.bus.i2c_rdwr(msg_r) succeeds; the bytes are checked and decoded.
bus_read_ok ==
    /\ rd.stage = "read"
    /\ \E data \in Reads(ReadLength(rd.response_length)) :
          /\ rv' = DecodeRead(data)
          /\ Continue(DecodeRead(data),
                      Append(log, Ev("read", rd.command, ReadLength(rd.response_length), data)),
                      now)
    /\ UNCHANGED <<bus, op, t_start>>

\* self.bus.i2c_rdwr(msg_r) raises.
bus_read_fail ==
    /\ rd.stage = "read"
    /\ rv' = Raise("OSError")
    /\ Finish(Raise("OSError"),
              Append(log, Ev("read_fail", rd.command, ReadLength(rd.response_length), <<>>)), now)
    /\ KeepCache
    /\ UNCHANGED <<bus, op, t_start>>

----------------------------------------------------------------------------
\* The public operations, as the caller enters them.

Op(name, blocking, timeout, arg) ==
    [name |-> name, blocking |-> blocking, timeout |-> timeout, arg |-> arg]

NoOp == Op("", FALSE, 0, 0)

\* The constructor or an operation has returned or raised: control is back in
\* the caller, which holds the handle unless the constructor raised.
returned ==
    /\ pc = "done"
    /\ bus = "open"
    /\ ~(op.name = "__init__" /\ ret.kind = "raise")
    /\ pc' = "idle"
    /\ op' = NoOp
    /\ rv' = Running
    /\ ret' = Running
    /\ log' = <<>>
    /\ now' = 0
    /\ KeepCache
    /\ UNCHANGED <<bus, rd, t_start>>

\* The caller holds a handle whose bus is open and is between two calls.
Usable == pc = "idle" /\ bus = "open"

\* Entering operation o, whose first statement is the rdwr call r.
Enter(o, r, firstpc) ==
    /\ op' = o
    /\ t_start' = 0
    /\ KeepCache
    /\ UNCHANGED bus
    /\ rv' = IF r.stage = "raised" THEN Raise(r.exc) ELSE Running
    /\ Invoke(r, firstpc, <<>>, 0)

reset ==
    /\ Usable
    /\ Enter(Op("reset", FALSE, 0, 0), rdwr_enter(SOFT_RESET, PyNone, 0, DelayReset), "cmd")

\* Mutant: factory_reset sends its command at once.
factory_reset_WithoutStop ==
    /\ Usable
    /\ Enter(Op("factory_reset", FALSE, 0, 0),
         rdwr_enter(FACTORY_RESET, PyNone, 0, DelayFactoryReset), "cmd")

factory_reset ==
    /\ Usable
    /\ Enter(Op("factory_reset", FALSE, 0, 0),
         rdwr_enter(STOP_PERIODIC_MEASUREMENT, PyNone, 0, DelayStop), "stop")

self_test ==
    /\ Usable
    /\ Enter(Op("self_test", FALSE, 0, 0),
         rdwr_enter(STOP_PERIODIC_MEASUREMENT, PyNone, 0, DelayStop), "stop")

measure ==
    \E blocking \in BOOLEAN, timeout \in Timeouts :
        /\ Usable
        /\ Enter(Op("measure", blocking, timeout, 0),
             rdwr_enter(DATA_READY, PyNone, 1, DelayShort), "poll")

data_ready ==
    /\ Usable
    /\ Enter(Op("data_ready", FALSE, 0, 0), rdwr_enter(DATA_READY, PyNone, 1, DelayShort), "cmd")

get_serial_number ==
    /\ Usable
    /\ Enter(Op("get_serial_number", FALSE, 0, 0),
         rdwr_enter(SERIAL_NUMBER, PyNone, 3, DelayShort), "cmd")

start_periodic_measurement ==
    \E low_power \in BOOLEAN :
        /\ Usable
        /\ Enter(Op("start_periodic_measurement", low_power, 0, 0),
             rdwr_enter(IF low_power THEN START_LOW_POWER_PERIODIC_MEASUREMENT
                                     ELSE START_PERIODIC_MEASUREMENT, PyNone, 0, 0), "cmd")

stop_periodic_measurement ==
    /\ Usable
    /\ Enter(Op("stop_periodic_measurement", FALSE, 0, 0),
         rdwr_enter(STOP_PERIODIC_MEASUREMENT, PyNone, 0, DelayStop), "cmd")

set_ambient_pressure ==
    \E ambient_pressure \in ArgVals :
        /\ Usable
        /\ Enter(Op("set_ambient_pressure", FALSE, 0, ambient_pressure),
             rdwr_enter(SET_PRESSURE, PyInt(ambient_pressure), 0, 0), "cmd")

\* Mutant: the limit is off by one.
OffsetRejected_OffByOne(temperature_offset) == temperature_offset > MaxTempOffset + 1

\* if temperature_offset > 374: raise ValueError
OffsetRejected(temperature_offset) == temperature_offset > MaxTempOffset

\* int(x / y) for integers: the quotient truncated toward zero.
TruncDiv(x, y) == IF x >= 0 THEN x \div y ELSE -((-x) \div y)

\* Mutant: the quotient rounded to the nearest integer.
EncodeOffset_Rounded(temperature_offset) ==
    TruncDiv(2 * temperature_offset * 65536 + 175, 2 * 175)

\* offset = int(temperature_offset * (1 << 16) / 175)
EncodeOffset(temperature_offset) == TruncDiv(temperature_offset * 65536, 175)

set_temperature_offset ==
    \E temperature_offset \in TempOffsets :
        /\ Usable
        /\ IF OffsetRejected(temperature_offset)
           THEN /\ op' = Op("set_temperature_offset", FALSE, 0, temperature_offset)
                /\ t_start' = 0
                /\ KeepCache
                /\ UNCHANGED bus
                /\ rv' = Running
                /\ Finish(Raise("ValueError_offset"), <<>>, 0)
           ELSE Enter(Op("set_temperature_offset", FALSE, 0, temperature_offset),
                      rdwr_enter(SET_TEMP_OFFSET, PyInt(EncodeOffset(temperature_offset)), 0, 0),
                      "cmd")

get_temperature_offset ==
    /\ Usable
    /\ Enter(Op("get_temperature_offset", FALSE, 0, 0),
         rdwr_enter(GET_TEMP_OFFSET, PyNone, 1, DelayShort), "cmd")

set_altitude ==
    \E altitude \in ArgVals :
        /\ Usable
        /\ Enter(Op("set_altitude", FALSE, 0, altitude),
             rdwr_enter(SET_ALTITUDE, PyInt(altitude), 0, DelayShort), "cmd")

get_altitude ==
    /\ Usable
    /\ Enter(Op("get_altitude", FALSE, 0, 0), rdwr_enter(GET_ALTITUDE, PyNone, 1, DelayShort), "cmd")

set_automatic_self_calibration_enabled ==
    \E value \in BOOLEAN :
        /\ Usable
        /\ Enter(Op("set_automatic_self_calibration_enabled", value, 0, 0),
             rdwr_enter(SET_ASCE, PyInt(IF value THEN 1 ELSE 0), 0, 0), "cmd")

get_automatic_self_calibration_enabled ==
    /\ Usable
    /\ Enter(Op("get_automatic_self_calibration_enabled", FALSE, 0, 0),
         rdwr_enter(GET_ASCE, PyNone, 1, DelayShort), "cmd")

persist_settings ==
    /\ Usable
    /\ Enter(Op("persist_settings", FALSE, 0, 0),
         rdwr_enter(PERSIST_SETTINGS, PyNone, 0, DelayPersist), "cmd")

\* __exit__: self.bus.close()
exit ==
    /\ Usable
    /\ bus' = "closed"
    /\ op' = Op("__exit__", FALSE, 0, 0)
    /\ rv' = Running
    /\ t_start' = 0
    /\ KeepCache
    /\ Finish(Return(PyNone), <<>>, 0)

----------------------------------------------------------------------------
\* __init__ has set the three fields to 0 and the address, has opened the bus
\* and is entering stop_periodic_measurement.
Init ==
    /\ bus = "open"
    /\ co2 = PyInt(0)
    /\ temperature = PyInt(0)
    /\ relative_humidity = PyInt(0)
    /\ op = Op("__init__", FALSE, 0, 0)
    /\ pc = "stop"
    /\ rd = rdwr_enter(STOP_PERIODIC_MEASUREMENT, PyNone, 0, DelayStop)
    /\ rv = Running
    /\ ret = Running
    /\ measured = FALSE
    /\ log = << Ev("rdwr", STOP_PERIODIC_MEASUREMENT, 0, << DelayStop >>) >>
    /\ now = 0
    /\ t_start = 0

Next ==
    \/ bus_write_ok
    \/ bus_write_fail
    \/ rdwr_sleep
    \/ bus_read_ok
    \/ bus_read_fail
    \/ reset
    \/ factory_reset
    \/ self_test
    \/ measure
    \/ data_ready
    \/ get_serial_number
    \/ start_periodic_measurement
    \/ stop_periodic_measurement
    \/ set_ambient_pressure
    \/ set_temperature_offset
    \/ get_temperature_offset
    \/ set_altitude
    \/ get_altitude
    \/ set_automatic_self_calibration_enabled
    \/ get_automatic_self_calibration_enabled
    \/ persist_settings
    \/ exit
    \/ returned

Spec == Init /\ [][Next]_vars

\* The steps inside a call.  The driver is one synchronous thread: once a call
\* is entered it keeps running, and every bus operation and sleep comes back.
InCall ==
    \/ bus_write_ok
    \/ bus_write_fail
    \/ rdwr_sleep
    \/ bus_read_ok
    \/ bus_read_fail

FairSpec == Spec /\ WF_vars(InCall)

----------------------------------------------------------------------------
\* The functions of one answer, over wider ranges of words: a handle between
\* two calls, data_ready answered with any 16-bit word and get_serial_number
\* with any three of SerialWords, every answer whole and with good checksums.

AllWords == 0..65535
SerialWords == {4660, 22136, 39612}

GoodTriple(w) == to_bytes2(w) \o << SCD4X_crc8_int(w) >>

WholeAnswers(command) ==
    IF command = DATA_READY THEN { GoodTriple(w) : w \in AllWords }
    ELSE { GoodTriple(w0) \o GoodTriple(w1) \o GoodTriple(w2) :
               w0 \in SerialWords, w1 \in SerialWords, w2 \in SerialWords }

\* self.bus.i2c_rdwr(msg_r) succeeds with a whole and intact answer.
bus_read_whole ==
    /\ rd.stage = "read"
    /\ \E data \in WholeAnswers(rd.command) :
          /\ rv' = rdwr_decode(data)
          /\ Continue(rdwr_decode(data),
                      Append(log, Ev("read", rd.command, ReadLength(rd.response_length), data)),
                      now)
    /\ UNCHANGED <<bus, op, t_start>>

\* __init__ has returned the handle.
WordInit ==
    /\ bus = "open"
    /\ co2 = PyInt(0)
    /\ temperature = PyInt(0)
    /\ relative_humidity = PyInt(0)
    /\ op = NoOp
    /\ pc = "idle"
    /\ rd = NoRd
    /\ rv = Running
    /\ ret = Running
    /\ measured = FALSE
    /\ log = <<>>
    /\ now = 0
    /\ t_start = 0

WordNext ==
    \/ data_ready
    \/ get_serial_number
    \/ bus_write_ok
    \/ rdwr_sleep
    \/ bus_read_whole
    \/ returned

WordSpec == WordInit /\ [][WordNext]_vars

----------------------------------------------------------------------------
\* Reading the log: the transactions (one per rdwr call) and their bus events.

BusKinds == {"write", "write_fail", "read", "read_fail"}
FailKinds == {"write_fail", "read_fail"}

\* The index after the last event of the transaction entered at log[i].
TxEnd(i) ==
    LET later == { j \in (i + 1)..Len(log) : log[j].k \in {"rdwr", "poll_sleep"} }
    IN  IF later = {} THEN Len(log) + 1 ELSE CHOOSE j \in later : \A k \in later : j <= k

\* The events of the transaction entered at log[i].
Seg(i) == SubSeq(log, i + 1, TxEnd(i) - 1)

\* The indices of the rdwr calls in the log.
Txs == { i \in 1..Len(log) : log[i].k = "rdwr" }

\* An event as (kind, command, number), a failed attempt counted as an attempt.
Shape(e) ==
    << IF e.k = "write_fail" THEN "write" ELSE IF e.k = "read_fail" THEN "read" ELSE e.k,
       e.cmd, e.n >>

\* What a transaction with these arguments is to do on the bus, in order.
WriteSleepRead(e) ==
    << <<"write", e.cmd, 0>>, <<"sleep", e.cmd, e.data[1]>> >>
        \o (IF e.n > 0 THEN << <<"read", e.cmd, 3 * e.n>> >> ELSE <<>>)

\* The transaction entered at log[i] has ended, and neither did the transport
\* fail in it nor did its argument fail to fit the frame.
Completed(i) == TxEnd(i) <= Len(log) \/ (pc = "done" /\ ret.exc \notin {"OSError", "struct.error"})

\* C1: every rdwr call does, in this order and each once, the bus write of its
\* frame, the wait of delay ms and, when expected_words > 0, one bus read of
\* 3 * expected_words bytes; with expected_words = 0 there is no read.  A call
\* the transport fails stops at the failed step, and a call whose argument does
\* not fit the 16-bit field stops before the write; no read, sleep or write is
\* on the bus outside a call, and no read precedes its call's write.
C1_WriteSleepRead ==
    /\ \A i \in Txs :
          /\ Len(Seg(i)) <= Len(WriteSleepRead(log[i]))
          /\ \A k \in 1..Len(Seg(i)) : Shape(Seg(i)[k]) = WriteSleepRead(log[i])[k]
          /\ \A k \in 1..(Len(Seg(i)) - 1) : Seg(i)[k].k \notin FailKinds
          /\ Completed(i) => Len(Seg(i)) = Len(WriteSleepRead(log[i]))
          /\ Seg(i) # <<>> => SubSeq(Seg(i)[1].data, 1, 2) = to_bytes2(log[i].cmd)
    /\ \A j \in 1..Len(log) :
          log[j].k \in BusKinds \cup {"sleep"} => \E i \in Txs : i < j /\ j < TxEnd(i)

\* A self_test that returned: a transaction without a read, then one with a read.
C1_Witness ==
    /\ pc = "done"
    /\ op.name = "self_test"
    /\ ret.kind = "return"
    /\ Len(log) = 7
    /\ log[3].k = "sleep" /\ log[4].k = "rdwr"
    /\ log[7].k = "read" /\ log[7].n = 3

----------------------------------------------------------------------------
\* The k-th (0-based) complete triple of a response, and whether its checksum
\* byte is the checksum of its two data bytes.
NTriples(d) == Len(d) \div 3
TripleOk(d, k) == SCD4X_crc8_bytes(<< d[3 * k + 1], d[3 * k + 2] >>) = d[3 * k + 3]
HasBadTriple(d) == \E k \in 0..(NTriples(d) - 1) : ~TripleOk(d, k)
WordOf(d, k) == d[3 * k + 1] * 256 + d[3 * k + 2]

\* C2: a response in which some triple's checksum byte is not the checksum of
\* its two data bytes, at whatever position, ends the transaction and the
\* operation with the CRC error; rdwr hands no decoded word to its caller and
\* nothing further is done on the bus.
C2_CrcErrorOnAnyBadTriple ==
    \A j \in 1..Len(log) :
        log[j].k = "read" /\ HasBadTriple(log[j].data) =>
            /\ j = Len(log)
            /\ pc = "done"
            /\ rv = Raise("ValueError_CRC")
            /\ ret = Raise("ValueError_CRC")

\* A three-triple response whose first two triples are good and whose last is bad.
C2_Witness ==
    /\ pc = "done"
    /\ log[Len(log)].k = "read"
    /\ Len(log[Len(log)].data) = 9
    /\ TripleOk(log[Len(log)].data, 0)
    /\ TripleOk(log[Len(log)].data, 1)
    /\ ~TripleOk(log[Len(log)].data, 2)
    /\ rv.exc = "ValueError_CRC"

\* C3 (as claimed): a bus read that hands back fewer bytes than were asked for
\* makes the transaction fail; no result is built from the shorter response.
C3_ShortReadFails ==
    \A j \in 1..Len(log) :
        log[j].k = "read" /\ Len(log[j].data) < log[j].n =>
            /\ j = Len(log)
            /\ pc = "done"
            /\ rv.kind = "raise"

\* The last rdwr call of the log that has ended.
FinishedTxs == { i \in Txs : TxEnd(i) <= Len(log) \/ pc = "done" }
LastFinishedTx == CHOOSE i \in FinishedTxs : \A k \in FinishedTxs : k <= i

\* C4 (as claimed): the result of a transaction that succeeded has the shape the
\* number of expected words decides: a scalar for one word, the sequence of
\* exactly expected_words values for more than one, the empty result for none.
C4_ResultShape ==
    rv.kind = "return" =>
        LET n == log[LastFinishedTx].n
        IN  /\ n = 0 => rv.val = PyList(<<>>)
            /\ n = 1 => rv.val.t = "int"
            /\ n > 1 => rv.val.t = "list" /\ Len(rv.val.s) = n

----------------------------------------------------------------------------
\* A data-ready answer that arrived whole and intact, by what its word says.
DataReadyRead(e) ==
    /\ e.k = "read"
    /\ e.cmd = DATA_READY
    /\ Len(e.data) = 3
    /\ TripleOk(e.data, 0)
NotReadyRead(e) == DataReadyRead(e) /\ WordOf(e.data, 0) % 2048 = 0
ReadyRead(e) == DataReadyRead(e) /\ WordOf(e.data, 0) % 2048 # 0

Kinds(q) == [k \in 1..Len(q) |-> q[k].k]

\* C5: a non-blocking measure whose data-ready check reports not ready is over
\* with that one data-ready transaction: it returns None without an error, has
\* not slept the poll interval, has not polled again and has not sent
\* read-measurement.
C5_NonBlockingNotReady ==
    (op.name = "measure" /\ ~op.blocking /\ Len(log) >= 4 /\ NotReadyRead(log[4])) =>
        /\ pc = "done"
        /\ ret = Return(PyNone)
        /\ Kinds(log) = <<"rdwr", "write", "sleep", "read">>
        /\ \A j \in 1..Len(log) : log[j].cmd = DATA_READY
        /\ now < PollMs

C5_Witness ==
    /\ pc = "done"
    /\ op.name = "measure"
    /\ ~op.blocking
    /\ Len(log) = 4
    /\ NotReadyRead(log[4])
    /\ WordOf(log[4].data, 0) = 32768
    /\ ret = Return(PyNone)

\* Every data-ready check of the call so far came back whole and said not ready.
NeverReady ==
    \A i \in Txs : log[i].cmd = DATA_READY => Len(Seg(i)) = 3 /\ NotReadyRead(Seg(i)[3])

C6_Outcome ==
    (pc = "done" /\ op.name = "measure" /\ op.blocking /\ NeverReady) =>
        /\ ret = Raise("RuntimeError_timeout")
        /\ \A i \in Txs : log[i].cmd = DATA_READY
        /\ op.timeout = 0 => Cardinality(Txs) = 1

\* C6: a blocking measure, whatever its timeout >= 0, comes to an end; when no
\* data-ready check of the call reported ready it ends with the timeout error,
\* without a reading and without having sent read-measurement, and with
\* timeout = 0 after the first data-ready check.
C6_BlockingMeasureTimesOut ==
    /\ [](C6_Outcome)
    /\ (op.name = "measure" /\ op.blocking /\ pc # "done") ~> (pc = "done")

C6_Witness ==
    /\ pc = "done"
    /\ op.name = "measure"
    /\ op.blocking
    /\ op.timeout = 0
    /\ NeverReady
    /\ ret = Raise("RuntimeError_timeout")

\* C7: when measure returns a reading, the call's last data-ready check said
\* ready, the read-measurement transaction after it brought three triples with
\* valid checksums, and the reading is the one decoded from those triples.
C7_ReadingFromFreshResponse ==
    (pc = "done" /\ op.name = "measure" /\ ret.kind = "return" /\ ret.val # PyNone) =>
        LET n == Len(log)
            d == log[n].data
        IN  /\ n >= 8
            /\ ReadyRead(log[n - 4])
            /\ Kinds(SubSeq(log, n - 3, n)) = <<"rdwr", "write", "sleep", "read">>
            /\ \A j \in (n - 3)..n : log[j].cmd = READ_MEASUREMENT
            /\ Len(d) = 9
            /\ ~HasBadTriple(d)
            /\ ret.val.t = "tuple"
            /\ ret.val.s = << WordOf(d, 0), 175 * WordOf(d, 1) - 45 * 65536, 100 * WordOf(d, 2) >>

\* A reading that differs from the initial field values and from a cached reading.
C7_Witness ==
    /\ pc = "done"
    /\ op.name = "measure"
    /\ ret.kind = "return"
    /\ ret.val.t = "tuple"
    /\ ret.val.s[1] = 32769
    /\ measured

\* C8 (as claimed): until a measure has returned a reading, the three cached
\* fields are None.
C8_CacheAbsentBeforeMeasure ==
    ~measured => co2 = PyNone /\ temperature = PyNone /\ relative_humidity = PyNone

\* C9: set_temperature_offset with an offset above 374 raises the validation
\* error without calling rdwr: nothing is written to or read from the bus.
C9_RejectedOffsetNoBus ==
    (op.name = "set_temperature_offset" /\ op.arg > 374) =>
        /\ pc = "done"
        /\ ret = Raise("ValueError_offset")
        /\ rv = Running
        /\ log = <<>>

C9_Witness ==
    /\ pc = "done"
    /\ op.name = "set_temperature_offset"
    /\ op.arg = 375
    /\ ret = Raise("ValueError_offset")
    /\ log = <<>>

\* The argument of a command-with-argument frame.
ArgOf(frame) == frame[3] * 256 + frame[4]

\* C10 (as claimed): the argument sent is the integer nearest to celsius * 65536 / 175.
C10_ArgumentIsRounded ==
    \A j \in 1..Len(log) :
        (log[j].k = "write" /\ log[j].cmd = SET_TEMP_OFFSET) =>
            /\ 2 * 175 * ArgOf(log[j].data) <= 2 * op.arg * 65536 + 175
            /\ 2 * op.arg * 65536 - 175 < 2 * 175 * ArgOf(log[j].data)

\* C10 (amended): the argument sent is celsius * 65536 / 175 truncated to an
\* integer: the largest integer not above the quotient.
C10_ArgumentIsTruncated ==
    \A j \in 1..Len(log) :
        (log[j].k = "write" /\ log[j].cmd = SET_TEMP_OFFSET) =>
            /\ 175 * ArgOf(log[j].data) <= op.arg * 65536
            /\ op.arg * 65536 < 175 * (ArgOf(log[j].data) + 1)

\* Offset 2: the quotient is 748.98..., and 748 is sent.
C10_Witness ==
    /\ op.name = "set_temperature_offset"
    /\ op.arg = 2
    /\ Len(log) >= 2
    /\ log[2].k = "write"
    /\ ArgOf(log[2].data) = 748

----------------------------------------------------------------------------
\* What __init__ is to put on the bus, in order.
OpenSequence ==
    << <<"rdwr", STOP_PERIODIC_MEASUREMENT, 0>>, <<"write", STOP_PERIODIC_MEASUREMENT, 0>>,
       <<"sleep", STOP_PERIODIC_MEASUREMENT, 500>>,
       <<"rdwr", SERIAL_NUMBER, 3>>, <<"write", SERIAL_NUMBER, 0>>,
       <<"sleep", SERIAL_NUMBER, 1>>, <<"read", SERIAL_NUMBER, 9>> >>

\* C11: __init__ does on the bus, in this order and nothing else, the stop
\* command (no read, 500 ms), then the serial-number command (1 ms, a read of
\* three triples); it stops at the first step that fails and then raises, so the
\* serial-number command is not sent after a failed stop; it returns only after
\* both steps were done in full and without a failure.
C11_OpenStopThenSerial ==
    op.name = "__init__" =>
        /\ Len(log) <= Len(OpenSequence)
        /\ \A k \in 1..Len(log) : Shape(log[k]) = OpenSequence[k]
        /\ log[1].data = << 500 >>
        /\ Len(log) >= 4 => log[4].data = << 1 >>
        /\ \A k \in 1..Len(log) :
              log[k].k \in FailKinds => k = Len(log) /\ pc = "done" /\ ret = Raise("OSError")
        /\ rv.kind = "raise" => pc = "done" /\ ret = rv
        /\ (pc = "done" /\ ret.kind = "return") =>
              /\ Len(log) = Len(OpenSequence)
              /\ Len(log[7].data) = 9
              /\ ~HasBadTriple(log[7].data)
        /\ pc = "done" => ret.kind \in {"return", "raise"}

\* __init__ returned a handle.
C11_Witness ==
    /\ op.name = "__init__"
    /\ pc = "done"
    /\ ret = Return(PyNone)
    /\ Len(log) = 7
    /\ log[2].k = "write" /\ log[5].k = "write" /\ log[7].k = "read"

----------------------------------------------------------------------------
\* No step can follow: __exit__ has run, or __init__ raised and no handle exists.
Terminal == pc = "done" /\ (op.name = "__exit__" \/ (op.name = "__init__" /\ ret.kind = "raise"))

\* C12 (as claimed): the bus opened by __init__ is closed on every way out: at
\* the end of the with block, and when __init__ raises after opening the bus;
\* no terminal state holds the bus open.
C12_BusReleasedOnEveryExit == Terminal => bus = "closed"

----------------------------------------------------------------------------
\* The answer to the self-test command arrived whole and intact.
SelfTestAnswered ==
    /\ Len(log) = 7
    /\ log[7].k = "read"
    /\ log[7].cmd = SELF_TEST
    /\ Len(log[7].data) = 3
    /\ TripleOk(log[7].data, 0)

\* C13: self_test raises the self-test RuntimeError exactly when the self-test
\* transaction succeeded and its word is not 0; with the word 0 it returns
\* without an error; a failed bus write or read ends it with the transport's
\* error and a checksum mismatch with the CRC error.
C13_SelfTestOutcome ==
    (op.name = "self_test" /\ pc = "done") =>
        /\ ret = Raise("RuntimeError_self_test") <=>
              (SelfTestAnswered /\ WordOf(log[7].data, 0) # 0)
        /\ (SelfTestAnswered /\ WordOf(log[7].data, 0) = 0) => ret = Return(PyNone)
        /\ ret.kind = "return" => SelfTestAnswered /\ WordOf(log[7].data, 0) = 0
        /\ log[Len(log)].k \in FailKinds => ret = Raise("OSError")
        /\ (log[Len(log)].k = "read" /\ HasBadTriple(log[Len(log)].data)) =>
              ret = Raise("ValueError_CRC")

\* The sensor reports a fault with the word 0x8001.
C13_Witness ==
    /\ op.name = "self_test"
    /\ pc = "done"
    /\ SelfTestAnswered
    /\ WordOf(log[7].data, 0) = 32769
    /\ ret = Raise("RuntimeError_self_test")

----------------------------------------------------------------------------
\* data_ready got its word in a whole and intact answer.
DataReadyAnswered ==
    /\ op.name = "data_ready"
    /\ pc = "done"
    /\ Len(log) = 4
    /\ DataReadyRead(log[4])

\* C14: for every 16-bit word w the device answers with, what data_ready
\* returns is truthy exactly when w mod 2048 is not 0: only the low 11 bits
\* count, so a word with nothing but bits 11..15 set is not ready.
C14_ReadyIffLowBits ==
    DataReadyAnswered =>
        /\ ret.kind = "return"
        /\ ret.val.t = "int"
        /\ ret.val.i # 0 <=> WordOf(log[4].data, 0) % 2048 # 0

\* The word 0xF800 (bits 11..15 set) is answered and data_ready returns 0.
C14_Witness ==
    /\ DataReadyAnswered
    /\ WordOf(log[4].data, 0) = 63488
    /\ ret = Return(PyInt(0))

----------------------------------------------------------------------------
\* The 16 bits of a word as four hexadecimal digits, most significant first.
Hex4(w) == << w \div 4096, (w \div 256) % 16, (w \div 16) % 16, w % 16 >>

\* get_serial_number got three words in a whole and intact answer.
SerialAnswered ==
    /\ op.name = "get_serial_number"
    /\ pc = "done"
    /\ Len(log) = 4
    /\ log[4].k = "read"
    /\ Len(log[4].data) = 9
    /\ ~HasBadTriple(log[4].data)

\* C16: get_serial_number returns w0 * 2^32 + w1 * 2^16 + w2 for the words
\* w0, w1, w2 in the order they arrived: the number whose base-65536 digits
\* are w0, w1, w2, i.e. whose twelve hexadecimal digits are those of w0, then
\* of w1, then of w2.
C16_SerialNumberPacking ==
    SerialAnswered =>
        /\ ret.kind = "return"
        /\ ret.val.t = "int"
        /\ Len(ret.val.s) = 3
        /\ \A k \in 0..2 : ret.val.s[k + 1] = WordOf(log[4].data, k)
        /\ Hex4(ret.val.s[1]) \o Hex4(ret.val.s[2]) \o Hex4(ret.val.s[3])
              = Hex4(WordOf(log[4].data, 0)) \o Hex4(WordOf(log[4].data, 1))
                    \o Hex4(WordOf(log[4].data, 2))

\* The words 0x1234, 0x5678, 0x9ABC arrive and 0x123456789ABC is returned.
C16_Witness ==
    /\ SerialAnswered
    /\ << WordOf(log[4].data, 0), WordOf(log[4].data, 1), WordOf(log[4].data, 2) >>
          = << 4660, 22136, 39612 >>
    /\ Hex4(ret.val.s[1]) \o Hex4(ret.val.s[2]) \o Hex4(ret.val.s[3])
          = << 1, 2, 3, 4, 5, 6, 7, 8, 9, 10, 11, 12 >>

----------------------------------------------------------------------------
\* C15: no operation tries again or hides a failure: a failed bus write, a
\* failed bus read or a response with a checksum mismatch is the last thing the
\* operation does on the bus (in any poll of measure, in the stop step of
\* factory_reset and self_test, in __init__), and the operation ends by raising
\* that error to its caller.
C15_NoRetryNoSwallow ==
    \A j \in 1..Len(log) :
        /\ log[j].k \in FailKinds =>
              /\ j = Len(log)
              /\ pc = "done"
              /\ ret = Raise("OSError")
        /\ (log[j].k = "read" /\ HasBadTriple(log[j].data)) =>
              /\ \A i \in (j + 1)..Len(log) : log[i].k \notin BusKinds \cup {"rdwr", "sleep", "poll_sleep"}
              /\ pc = "done"
              /\ ret.kind = "raise"
              /\ ret.exc = "ValueError_CRC"

\* A blocking measure whose second data-ready poll fails on the bus read.
C15_Witness ==
    /\ op.name = "measure"
    /\ op.blocking
    /\ pc = "done"
    /\ \E j \in 1..Len(log) : log[j].k = "poll_sleep"
    /\ log[Len(log)].k = "read_fail"
    /\ ret = Raise("OSError")

----------------------------------------------------------------------------
\* C17: a measure that returns a reading has decoded the three words of the
\* read-measurement response in the order they arrived: co2 is word 0 as it
\* is, temperature * 65536 is 175 * word 1 - 45 * 65536, relative_humidity *
\* 65536 is 100 * word 2; these are the cached fields, and the triple returned
\* is the triple of the cached fields.
C17_DecodedAndCached ==
    (pc = "done" /\ op.name = "measure" /\ ret.kind = "return" /\ ret.val # PyNone) =>
        LET d == log[Len(log)].data
        IN  /\ log[Len(log)].k = "read"
            /\ log[Len(log)].cmd = READ_MEASUREMENT
            /\ co2 = PyInt(WordOf(d, 0))
            /\ temperature.t = "float"
            /\ temperature.i = 175 * WordOf(d, 1) - 45 * 65536
            /\ relative_humidity.t = "float"
            /\ relative_humidity.i = 100 * WordOf(d, 2)
            /\ ret.val = PyTuple(<< co2.i, temperature.i, relative_humidity.i >>)

\* The words 0, 0x8001, 0: 0 ppm, 42.5 degrees and a bit, 0 percent.
C17_Witness ==
    /\ pc = "done"
    /\ op.name = "measure"
    /\ ret = Return(PyTuple(<< 0, 2785455, 0 >>))
    /\ co2 = PyInt(0)
    /\ temperature = PyFloat(2785455)
    /\ relative_humidity = PyFloat(0)

----------------------------------------------------------------------------
\* What factory_reset and self_test are to put on the bus, in order.
OwnCommand == IF op.name = "factory_reset" THEN FACTORY_RESET ELSE SELF_TEST
StopThenOwn ==
    << <<"rdwr", STOP_PERIODIC_MEASUREMENT, 0>>, <<"write", STOP_PERIODIC_MEASUREMENT, 0>>,
       <<"sleep", STOP_PERIODIC_MEASUREMENT, 500>> >>
    \o (IF op.name = "factory_reset"
        THEN << <<"rdwr", FACTORY_RESET, 0>>, <<"write", FACTORY_RESET, 0>>,
                <<"sleep", FACTORY_RESET, 1200>> >>
        ELSE << <<"rdwr", SELF_TEST, 1>>, <<"write", SELF_TEST, 0>>,
                <<"sleep", SELF_TEST, 10000>>, <<"read", SELF_TEST, 3>> >>)

\* C18: factory_reset and self_test first send the stop command and wait its
\* 500 ms, then send their own command (factory reset: 1200 ms, no read; self
\* test: 10000 ms and a read of one triple); their own command is written only
\* after the stop command was written and at least 500 ms have passed.
C18_StopBeforeOwnCommand ==
    op.name \in {"factory_reset", "self_test"} =>
        /\ Len(log) <= Len(StopThenOwn)
        /\ \A k \in 1..Len(log) : Shape(log[k]) = StopThenOwn[k]
        /\ log[1].data = << 500 >>
        /\ Len(log) >= 4 =>
              /\ log[4].data = << IF op.name = "factory_reset" THEN 1200 ELSE 10000 >>
              /\ log[2].k = "write"
              /\ now >= 500
        /\ \A j \in 1..Len(log) :
              (log[j].k \in {"write", "write_fail"} /\ SubSeq(log[j].data, 1, 2) = to_bytes2(OwnCommand))
                  => j = 5
        /\ (pc = "done" /\ ret.kind = "return") => Len(log) = Len(StopThenOwn)

\* A factory_reset that returned.
C18_Witness ==
    /\ op.name = "factory_reset"
    /\ pc = "done"
    /\ ret = Return(PyNone)
    /\ Len(log) = 6
    /\ log[2].k = "write" /\ log[2].cmd = STOP_PERIODIC_MEASUREMENT
    /\ log[5].k = "write" /\ log[5].cmd = FACTORY_RESET
    /\ now >= 1700

----------------------------------------------------------------------------
\* The bus writes of the call so far.
Writes == { j \in 1..Len(log) : log[j].k \in {"write", "write_fail"} }

\* C19 (as claimed): every temperature offset that is not above 374 is sent:
\* the call makes exactly one bus write, of a 5-byte frame whose argument is
\* the encoded offset, a value in 0..65535, followed by the checksum of the two
\* argument bytes; no accepted offset encodes outside the 16-bit field.
C19_AcceptedOffsetIsSent ==
    (op.name = "set_temperature_offset" /\ op.arg <= 374 /\ pc = "done") =>
        /\ EncodeOffset(op.arg) \in 0..65535
        /\ Cardinality(Writes) = 1
        /\ \A j \in Writes :
              /\ Len(log[j].data) = 5
              /\ SubSeq(log[j].data, 1, 2) = to_bytes2(SET_TEMP_OFFSET)
              /\ ArgOf(log[j].data) = EncodeOffset(op.arg)
              /\ log[j].data[5] = SCD4X_crc8_bytes(SubSeq(log[j].data, 3, 4))

----------------------------------------------------------------------------
\* C20 (as claimed): a step changes co2, temperature or relative_humidity only
\* when it is the step in which a measure returns a reading, and then the three
\* fields are the three decoded words of that one response; a measure that
\* returns None, times out or raises, and every step of every other operation,
\* leaves the three fields as they were.
C20_CacheChangesOnlyInSuccessfulMeasure ==
    [][ (<<co2, temperature, relative_humidity>>' # <<co2, temperature, relative_humidity>>) =>
            /\ op.name = "measure"
            /\ pc' = "done"
            /\ ret'.kind = "return"
            /\ ret'.val = PyTuple(<< co2'.i, temperature'.i, relative_humidity'.i >>)
            /\ co2'.i = WordOf(log'[Len(log')].data, 0)
            /\ temperature'.i = 175 * WordOf(log'[Len(log')].data, 1) - 45 * 65536
            /\ relative_humidity'.i = 100 * WordOf(log'[Len(log')].data, 2)
      ]_vars

====
